---- MODULE Spec2Model ----
(***************************************************************************)
(* Model of stm32-device/src/main.rs: an RTIC application with three       *)
(* tasks.  on_rx (priority 2, bound to the USART1 interrupt) decodes a     *)
(* command frame out of a DMA circular buffer and drives the motor enable  *)
(* pin and PWM duty.  mpu_init and gyro (priority 1, software tasks)       *)
(* calibrate the gyroscope and then stream the orientation over USART1.    *)
(*                                                                         *)
(* Floating point values are represented exactly as scaled integers:       *)
(* a throttle is a number of 1/ThrottleDen, a gyro value a number of       *)
(* 1/GyroScale.                                                            *)
(***************************************************************************)
EXTENDS Integers, Sequences, FiniteSets, TLC

(***************************************************************************)
(* Bounds of the model.                                                    *)
(***************************************************************************)
\* bytes the remote station sends in a run in which it is talkative
MaxRxBytes == 4
\* bytes the remote station sends in a run in which the sensor is varied
QuietRxBytes == 1
\* iterations of the calibration loop (2000 in the program)
NumReads == 3
\* gyro activations dispatched in a run
MaxActivations == 2
\* resolution of the throttle values: n stands for the float n / ThrottleDen
ThrottleDen == 2

(***************************************************************************)
(* Program constants.                                                      *)
(***************************************************************************)
\* common::COMMAND_SIZE: one enable byte followed by the throttle field
COMMAND_SIZE == 2
\* common::EOT, the end-of-transmission marker
EOT == 4
\* capacity of the gyro task's message queue
GyroCapacity == 1

\* byte values the remote station may put on the wire
ByteVals == {0, 1, 2, 3, 5}
\* values pwm.get_max_duty() may return (the timer's auto-reload value)
MaxDutyVals == {3, 5}

VARIABLES
    \* USART1 receiver and DMA1 channel 5
    buf,        \* the two receive slots, [[u8; COMMAND_SIZE]; 2]
    ndtr,       \* DMA remaining-transfer count, reloads to 2*COMMAND_SIZE
    dmaOn,      \* DMA channel enabled
    lineBusy,   \* a byte was received since the line was last idle
    idleFlag,   \* USART1 IDLE interrupt pending
    stored,     \* bytes the DMA has stored since the transfer was started
    \* remote station
    remote,     \* byte values it uses
    rxLeft,     \* bytes it will still send
    \* on_rx
    pcRx,       \* position of on_rx
    recv,       \* Local.recv: "Some" or "None"
    len,        \* the local len
    arg,        \* the slice handed to Command::from_byte_slice
    command,    \* the local command
    duty0,      \* PWM duty when on_rx was entered
    \* motor
    en,         \* PB4, the enable line
    duty,       \* PWM channel 3 duty
    max_duty,   \* PWM maximum duty
    \* panic handler (panic_rtt_target: interrupts off, loop forever)
    halted,
    panicMsg,   \* the message of the expect() that failed, "" if none
    \* MPU6050 on I2C2
    sensor,     \* gyro values it may return
    sensorFails,\* whether its reads may fail
    \* RTIC queues of the software tasks
    mpuInitQ,   \* mpu_init's message: "timer", "ready" or "none"
    gyroTQ,     \* gyro messages in the timer queue
    gyroRQ,     \* gyro messages in the ready queue
    gyroFQ,     \* free slots of gyro's message buffer
    \* the priority-1 task being executed and its locals
    low,        \* position of mpu_init or gyro, "idle" if none runs
    reads,      \* iterations of the calibration loop done
    acc,        \* accumulator of reduce, <<>> is None
    calOk,      \* the gyro samples flat_map has passed on so far
    offset,     \* gyro bias
    s,          \* spatial orientation
    raw_gyro,   \* the local raw_gyro
    angles,     \* the local angles
    txIdx,      \* bytes of the current frame already written
    \* USART1 transmitter
    txOut,      \* every byte written so far
    gyroActs    \* gyro activations dispatched so far

vars == <<buf, ndtr, dmaOn, lineBusy, idleFlag, stored, remote, rxLeft,
          pcRx, recv, len, arg, command, duty0, en, duty, max_duty,
          halted, panicMsg, sensor, sensorFails,
          mpuInitQ, gyroTQ, gyroRQ, gyroFQ,
          low, reads, acc, calOk, offset, s, raw_gyro, angles, txIdx,
          txOut, gyroActs>>

rxHw   == <<buf, ndtr, dmaOn, lineBusy, idleFlag, stored>>
rxEnv  == <<remote, rxLeft>>
rxTask == <<pcRx, recv, len, arg, command, duty0>>
motor  == <<en, duty, max_duty>>
rxSide == <<rxHw, rxEnv, rxTask, motor>>
panic  == <<halted, panicMsg>>
mpuEnv == <<sensor, sensorFails>>
queues == <<mpuInitQ, gyroTQ, gyroRQ, gyroFQ>>
locals == <<reads, acc, calOk, offset, s, raw_gyro, angles, txIdx>>
estSide == <<mpuEnv, queues, low, locals, txOut, gyroActs>>

(***************************************************************************)
(* Frame codec (crate common).                                             *)
(***************************************************************************)
\* the throttle field: sign bit 4, magnitude in units of 1/ThrottleDen
ThrottleOf(b) == IF b >= 4 THEN -(b % 4) ELSE b

\* Command::from_byte_slice
from_byte_slice(bytes) ==
    [throttle_on |-> bytes[1] = 1, throttle |-> ThrottleOf(bytes[2])]

NoCommand == [throttle_on |-> FALSE, throttle |-> 0]

\* ThrottleInRange without the upper limit
ThrottleInRange_open(t) == t >= 0

(***************************************************************************)
(* Motor output.                                                           *)
(***************************************************************************)
\* command.throttle <= 1.0 && command.throttle >= 0.0
ThrottleInRange(t) == t <= ThrottleDen /\ t >= 0

\* DutyOf with the product rounded to the nearest integer
DutyOf_round(m, t) == (2 * m * t + ThrottleDen) \div (2 * ThrottleDen)

\* (max_duty as f32 * throttle) as u16: the cast truncates toward zero
DutyOf(m, t) == (m * t) \div ThrottleDen

(***************************************************************************)
(* Vector3<f32>, each component a number of 1/GyroScale.  GyroScale has    *)
(* one binary digit for every halving a run can make, so that every        *)
(* division by two below is exact.                                         *)
(***************************************************************************)
GyroScale == 2 ^ (NumReads + MaxActivations)

Vec(n) == <<n * GyroScale, n * GyroScale, n * GyroScale>>
VAdd(a, b) == <<a[1] + b[1], a[2] + b[2], a[3] + b[3]>>
VSub(a, b) == <<a[1] - b[1], a[2] - b[2], a[3] - b[3]>>
VHalf(a) == <<a[1] \div 2, a[2] \div 2, a[3] \div 2>>

\* gyro values the sensor returns
GyroVals == {Vec(0), Vec(2), Vec(4)}
\* the value of a sensor that is at rest
QuietGyroVals == {Vec(2)}
\* accelerometer angles the sensor returns
AccAngleVals == {Vec(1)}
\* Result<T, E>: Ok(v) and Err(..)
Ok(v) == <<"Ok", v>>
Err == <<"Err">>
IsOk(r) == r[1] = "Ok"
Unwrap(r) == r[2]
\* byte values of a remote station that sends one arming byte
QuietByteVals == {1}

\* what mpu.get_gyro() may return
GetGyro == {Ok(v) : v \in sensor} \cup (IF sensorFails THEN {Err} ELSE {})
\* what mpu.get_acc_angles() may return
GetAccAngles ==
    {Ok(v) : v \in AccAngleVals} \cup (IF sensorFails THEN {Err} ELSE {})
\* what mpu.init() may return
MpuInit == {Ok(<<>>)} \cup (IF sensorFails THEN {Err} ELSE {})

\* the closure of reduce: |l, r| (l + r) / 2.0
Blend(l, r) == VHalf(VAdd(l, r))

\* ReduceStep with a failed read blended in as a zero sample
ReduceStep_zero(a, r) ==
    IF a = <<>> THEN (IF IsOk(r) THEN Unwrap(r) ELSE Vec(0))
    ELSE VHalf(VAdd(a, IF IsOk(r) THEN Unwrap(r) ELSE Vec(0)))

\* one step of flat_map(..ok()).reduce(..): a failed read is dropped, the
\* first sample starts the accumulator, every later one is blended in
ReduceStep(a, r) ==
    IF ~IsOk(r) THEN a
    ELSE IF a = <<>> THEN Unwrap(r)
    ELSE Blend(a, Unwrap(r))

(***************************************************************************)
(* Orientation model (crate common and mod spatial).                       *)
(***************************************************************************)
\* SpatialOrientation::new(angles)
NewOrientation(a) == a

\* s.adjust(gyro_delta, angles): gyro integration blended with the
\* accelerometer angles
Adjust(o, delta, a) == VHalf(VAdd(VAdd(o, delta), a))

\* s.to_byte_array(): one byte per axis
ToByteArray(o) == <<o[1] % 256, o[2] % 256, o[3] % 256>>

FrameSize == Len(ToByteArray(Vec(0)))

NoVec == <<>>

(***************************************************************************)
(* Initial state: the state init() returns in.                             *)
(***************************************************************************)
ZeroSlot == [i \in 1..COMMAND_SIZE |-> 0]

InitRx ==
    /\ buf = <<ZeroSlot, ZeroSlot>>
    /\ ndtr = 2 * COMMAND_SIZE
    /\ dmaOn = TRUE
    /\ lineBusy = FALSE
    /\ idleFlag = FALSE
    /\ stored = 0
    /\ pcRx = "idle"
    /\ recv = "Some"
    /\ len = 0
    /\ arg = <<>>
    /\ command = NoCommand
    /\ duty0 = 0
    /\ en = FALSE
    /\ duty = 0
    /\ max_duty \in MaxDutyVals
    /\ halted = FALSE
    /\ panicMsg = ""

\* mpu_init::spawn_after(1.secs(), mpu) has put mpu_init in the timer queue
InitEst ==
    /\ mpuInitQ = "timer"
    /\ gyroTQ = <<>>
    /\ gyroRQ = <<>>
    /\ gyroFQ = GyroCapacity
    /\ low = "idle"
    /\ reads = 0
    /\ acc = NoVec
    /\ calOk = <<>>
    /\ offset = NoVec
    /\ s = NoVec
    /\ raw_gyro = NoVec
    /\ angles = NoVec
    /\ txIdx = 0
    /\ txOut = <<>>
    /\ gyroActs = 0

\* The surroundings of a run: either the remote station is talkative and
\* the sensor at rest and reliable, or the sensor varies and fails and the
\* remote station sends little.
InitEnv ==
    \/ /\ remote = ByteVals
       /\ rxLeft = MaxRxBytes
       /\ sensor = QuietGyroVals
       /\ sensorFails = FALSE
    \/ /\ remote = QuietByteVals
       /\ rxLeft = QuietRxBytes
       /\ sensor = GyroVals
       /\ sensorFails = TRUE

Init ==
    /\ InitRx
    /\ InitEst
    /\ InitEnv

(***************************************************************************)
(* Hardware: the remote station, the USART1 receiver and the DMA channel.  *)
(***************************************************************************)
\* index of the byte the DMA channel writes next, 0 .. 2*COMMAND_SIZE-1
DmaPos == 2 * COMMAND_SIZE - ndtr

\* A byte arrives.  With the channel enabled the DMA stores it and counts
\* down, reloading at zero (circular mode); otherwise the byte is lost.
RxByte ==
    /\ rxLeft > 0
    /\ \E b \in remote :
        /\ rxLeft' = rxLeft - 1
        /\ lineBusy' = TRUE
        /\ IF dmaOn
           THEN /\ buf' = [buf EXCEPT ![(DmaPos \div COMMAND_SIZE) + 1]
                                       [(DmaPos % COMMAND_SIZE) + 1] = b]
                /\ ndtr' = IF ndtr = 1 THEN 2 * COMMAND_SIZE ELSE ndtr - 1
                /\ stored' = stored + 1
           ELSE UNCHANGED <<buf, ndtr, stored>>
    /\ UNCHANGED <<dmaOn, idleFlag, remote, rxTask, motor, panic, estSide>>

\* The line stays quiet for one frame time after a byte: IDLE is raised.
LineIdle ==
    /\ lineBusy
    /\ lineBusy' = FALSE
    /\ idleFlag' = TRUE
    /\ UNCHANGED <<buf, ndtr, dmaOn, stored, rxEnv, rxTask, motor, panic,
                   estSide>>

(***************************************************************************)
(* on_rx, priority 2, bound to USART1.                                     *)
(***************************************************************************)
\* on_rx_take that acknowledges the frame on the USART1 transmitter
on_rx_take_echo ==
    /\ ~halted
    /\ pcRx = "idle"
    /\ idleFlag
    /\ recv = "Some"
    /\ recv' = "None"
    /\ dmaOn' = FALSE
    /\ len' = (COMMAND_SIZE * 2) - ndtr
    /\ arg' = buf[1]
    /\ command' = from_byte_slice(buf[1])
    /\ duty0' = duty
    /\ pcRx' = "enable"
    /\ txOut' = Append(txOut, EOT)
    /\ UNCHANGED <<buf, ndtr, lineBusy, idleFlag, stored, rxEnv, motor, panic,
                   mpuEnv, queues, low, locals, gyroActs>>

\* on_rx_take without rx.stop(): the slot is read while the DMA runs
on_rx_take_nostop ==
    /\ ~halted
    /\ pcRx = "idle"
    /\ idleFlag
    /\ IF recv = "Some"
       THEN /\ recv' = "None"
            /\ dmaOn' = dmaOn
            /\ len' = (COMMAND_SIZE * 2) - ndtr
            /\ arg' = buf[1]
            /\ command' = from_byte_slice(buf[1])
            /\ duty0' = duty
            /\ pcRx' = "enable"
       ELSE UNCHANGED <<recv, dmaOn, len, arg, command, duty0, pcRx>>
    /\ UNCHANGED <<buf, ndtr, lineBusy, idleFlag, stored, rxEnv, motor, panic,
                   estSide>>

\* recv.take(), rx.stop(), len, Command::from_byte_slice(&buf[0])
on_rx_take ==
    /\ ~halted
    /\ pcRx = "idle"
    /\ idleFlag
    /\ IF recv = "Some"
       THEN /\ recv' = "None"
            /\ dmaOn' = FALSE
            /\ len' = (COMMAND_SIZE * 2) - ndtr
            /\ arg' = buf[1]
            /\ command' = from_byte_slice(buf[1])
            /\ duty0' = duty
            /\ pcRx' = "enable"
       ELSE UNCHANGED <<recv, dmaOn, len, arg, command, duty0, pcRx>>
    /\ UNCHANGED <<buf, ndtr, lineBusy, idleFlag, stored, rxEnv, motor, panic,
                   estSide>>

\* on_rx_enable with the enable line written only for a valid throttle
on_rx_enable_gated ==
    /\ ~halted
    /\ pcRx = "enable"
    /\ en' = IF command.throttle <= ThrottleDen /\ command.throttle >= 0
             THEN command.throttle_on ELSE en
    /\ pcRx' = "throttle"
    /\ UNCHANGED <<rxHw, rxEnv, recv, len, arg, command, duty0,
                   duty, max_duty, panic, estSide>>

\* on_rx_enable with the two branches exchanged
on_rx_enable_inverted ==
    /\ ~halted
    /\ pcRx = "enable"
    /\ en' = ~command.throttle_on
    /\ pcRx' = "throttle"
    /\ UNCHANGED <<rxHw, rxEnv, recv, len, arg, command, duty0,
                   duty, max_duty, panic, estSide>>

\* if command.throttle_on { en.set_high() } else { en.set_low() }
on_rx_enable ==
    /\ ~halted
    /\ pcRx = "enable"
    /\ en' = command.throttle_on
    /\ pcRx' = "throttle"
    /\ UNCHANGED <<rxHw, rxEnv, recv, len, arg, command, duty0,
                   duty, max_duty, panic, estSide>>

\* on_rx_throttle with an invalid throttle stopping the motor
on_rx_throttle_reset ==
    /\ ~halted
    /\ pcRx = "throttle"
    /\ IF ThrottleInRange(command.throttle)
       THEN duty' = DutyOf(max_duty, command.throttle)
       ELSE duty' = 0
    /\ pcRx' = "rearm"
    /\ UNCHANGED <<rxHw, rxEnv, recv, len, arg, command, duty0,
                   en, max_duty, panic, estSide>>

\* if in range { pwm.set_duty(C3, (max_duty as f32 * throttle) as u16) }
on_rx_throttle ==
    /\ ~halted
    /\ pcRx = "throttle"
    /\ IF ThrottleInRange(command.throttle)
       THEN duty' = DutyOf(max_duty, command.throttle)
       ELSE duty' = duty
    /\ pcRx' = "rearm"
    /\ UNCHANGED <<rxHw, rxEnv, recv, len, arg, command, duty0,
                   en, max_duty, panic, estSide>>

\* on_rx_rearm that clears both slots before it restarts the transfer
on_rx_rearm_clear ==
    /\ ~halted
    /\ pcRx = "rearm"
    /\ buf' = <<ZeroSlot, ZeroSlot>>
    /\ idleFlag' = FALSE
    /\ lineBusy' = lineBusy
    /\ ndtr' = 2 * COMMAND_SIZE
    /\ dmaOn' = TRUE
    /\ stored' = 0
    /\ recv' = "Some"
    /\ len' = 0
    /\ arg' = <<>>
    /\ command' = NoCommand
    /\ duty0' = duty
    /\ pcRx' = "idle"
    /\ UNCHANGED <<rxEnv, motor, panic, estSide>>

\* on_rx_rearm without recv.replace(..): the transfer is dropped
on_rx_rearm_forget ==
    /\ ~halted
    /\ pcRx = "rearm"
    /\ idleFlag' = FALSE
    /\ len' = 0
    /\ arg' = <<>>
    /\ command' = NoCommand
    /\ duty0' = duty
    /\ pcRx' = "idle"
    /\ UNCHANGED <<buf, ndtr, dmaOn, lineBusy, stored, recv, rxEnv, motor,
                   panic, estSide>>

\* rx.release(), clear_idle_interrupt(), with_dma, circ_read(buf),
\* recv.replace(..), return
on_rx_rearm ==
    /\ ~halted
    /\ pcRx = "rearm"
    /\ idleFlag' = FALSE
    /\ lineBusy' = lineBusy
    /\ ndtr' = 2 * COMMAND_SIZE
    /\ dmaOn' = TRUE
    /\ stored' = 0
    /\ recv' = "Some"
    /\ len' = 0
    /\ arg' = <<>>
    /\ command' = NoCommand
    /\ duty0' = duty
    /\ pcRx' = "idle"
    /\ UNCHANGED <<buf, rxEnv, motor, panic, estSide>>

\* LowMayRun with every task at the same priority and time-sliced
LowMayRun_shared == ~halted

(***************************************************************************)
(* Scheduling.  mpu_init and gyro are dispatched at priority 1, as is the  *)
(* SysTick handler that serves the timer queue: none of them preempts      *)
(* another, and none makes a step while on_rx runs or is pending.  After   *)
(* a panic nothing runs.                                                   *)
(***************************************************************************)
LowMayRun == ~halted /\ pcRx = "idle" /\ ~idleFlag

\* Panic with a handler that returns: the failed call is made again
Panic_returns(msg) == halted' = halted /\ panicMsg' = msg

\* the panic handler: interrupts disabled, loop forever
Panic(msg) == halted' = TRUE /\ panicMsg' = msg

\* a spawn takes a free slot of the task's message buffer, if there is one
SpawnOk(fq) == fq > 0

\* SlotsAfterDispatch with the slot still held while the task runs
SlotsAfterDispatch_late(fq) == fq

\* the dispatcher hands the slot back before it calls the task
SlotsAfterDispatch(fq) == fq + 1

\* the deadline of mpu_init::spawn_after(1.secs(), mpu) passes
SysTick_mpu_init ==
    /\ LowMayRun
    /\ low = "idle"
    /\ mpuInitQ = "timer"
    /\ mpuInitQ' = "ready"
    /\ UNCHANGED <<rxSide, panic, mpuEnv, gyroTQ, gyroRQ, gyroFQ,
                   low, locals, txOut, gyroActs>>

\* SysTick_gyro that leaves the message in the timer queue as well
SysTick_gyro_keep ==
    /\ LowMayRun
    /\ low = "idle"
    /\ gyroTQ /= <<>>
    /\ gyroRQ = <<>>
    /\ gyroRQ' = Append(gyroRQ, Head(gyroTQ))
    /\ UNCHANGED <<rxSide, panic, mpuEnv, mpuInitQ, gyroTQ, gyroFQ,
                   low, locals, txOut, gyroActs>>

\* the deadline of gyro::spawn_at(spawn_next_at, ..) passes
SysTick_gyro ==
    /\ LowMayRun
    /\ low = "idle"
    /\ gyroTQ /= <<>>
    /\ gyroRQ' = Append(gyroRQ, Head(gyroTQ))
    /\ gyroTQ' = Tail(gyroTQ)
    /\ UNCHANGED <<rxSide, panic, mpuEnv, mpuInitQ, gyroFQ,
                   low, locals, txOut, gyroActs>>

(***************************************************************************)
(* mpu_init, priority 1.                                                   *)
(***************************************************************************)
\* the dispatcher calls mpu_init
mpu_init_start ==
    /\ LowMayRun
    /\ low = "idle"
    /\ mpuInitQ = "ready"
    /\ mpuInitQ' = "none"
    /\ low' = "mpu_init:init"
    /\ UNCHANGED <<rxSide, panic, mpuEnv, gyroTQ, gyroRQ, gyroFQ,
                   locals, txOut, gyroActs>>

\* mpu.init().expect("unable to init MPU6050")
mpu_init_init ==
    /\ LowMayRun
    /\ low = "mpu_init:init"
    /\ \E r \in MpuInit :
        IF ~IsOk(r)
        THEN /\ Panic("unable to init MPU6050")
             /\ UNCHANGED low
        ELSE /\ low' = "mpu_init:get_gyro"
             /\ UNCHANGED panic
    /\ UNCHANGED <<rxSide, mpuEnv, queues, locals, txOut, gyroActs>>

\* one iteration of (0..2000).flat_map(|_| mpu.get_gyro().ok()).reduce(..)
mpu_init_get_gyro ==
    /\ LowMayRun
    /\ low = "mpu_init:get_gyro"
    /\ reads < NumReads
    /\ \E r \in GetGyro :
        /\ acc' = ReduceStep(acc, r)
        /\ calOk' = IF IsOk(r) THEN Append(calOk, Unwrap(r)) ELSE calOk
    /\ reads' = reads + 1
    /\ UNCHANGED <<rxSide, panic, mpuEnv, queues, low,
                   offset, s, raw_gyro, angles, txIdx, txOut, gyroActs>>

\* mpu_init_expect with unwrap_or_default() in place of expect()
mpu_init_expect_default ==
    /\ LowMayRun
    /\ low = "mpu_init:get_gyro"
    /\ reads = NumReads
    /\ offset' = IF acc = NoVec THEN Vec(0) ELSE acc
    /\ low' = "mpu_init:get_acc_angles"
    /\ UNCHANGED <<rxSide, panic, mpuEnv, queues, reads, acc, calOk,
                   s, raw_gyro, angles, txIdx, txOut, gyroActs>>

\* the loop is over: .expect("no calibration measurements")
mpu_init_expect ==
    /\ LowMayRun
    /\ low = "mpu_init:get_gyro"
    /\ reads = NumReads
    /\ IF acc = NoVec
       THEN /\ Panic("no calibration measurements")
            /\ UNCHANGED <<low, offset>>
       ELSE /\ offset' = acc
            /\ low' = "mpu_init:get_acc_angles"
            /\ UNCHANGED panic
    /\ UNCHANGED <<rxSide, mpuEnv, queues, reads, acc, calOk,
                   s, raw_gyro, angles, txIdx, txOut, gyroActs>>

\* mpu.get_acc_angles().expect(..), SpatialOrientation::new(angles)
mpu_init_get_acc_angles ==
    /\ LowMayRun
    /\ low = "mpu_init:get_acc_angles"
    /\ \E r \in GetAccAngles :
        IF ~IsOk(r)
        THEN /\ Panic("unable to get acc angles")
             /\ UNCHANGED <<low, reads, acc, calOk, s>>
        ELSE /\ s' = NewOrientation(Unwrap(r))
             /\ reads' = 0
             /\ acc' = NoVec
             /\ calOk' = <<>>
             /\ low' = "mpu_init:spawn"
             /\ UNCHANGED panic
    /\ UNCHANGED <<rxSide, mpuEnv, queues, offset, raw_gyro, angles,
                   txIdx, txOut, gyroActs>>

\* mpu_init_spawn that also schedules mpu_init again
mpu_init_spawn_again ==
    /\ LowMayRun
    /\ low = "mpu_init:spawn"
    /\ IF SpawnOk(gyroFQ)
       THEN /\ gyroRQ' = Append(gyroRQ, [offset |-> offset, s |-> s])
            /\ gyroFQ' = gyroFQ - 1
       ELSE UNCHANGED <<gyroRQ, gyroFQ>>
    /\ mpuInitQ' = "timer"
    /\ offset' = NoVec
    /\ s' = NoVec
    /\ low' = "idle"
    /\ UNCHANGED <<rxSide, panic, mpuEnv, gyroTQ, reads, acc,
                   calOk, raw_gyro, angles, txIdx, txOut, gyroActs>>

\* gyro::spawn(mpu, offset, spatial_orientation), return
mpu_init_spawn ==
    /\ LowMayRun
    /\ low = "mpu_init:spawn"
    /\ IF SpawnOk(gyroFQ)
       THEN /\ gyroRQ' = Append(gyroRQ, [offset |-> offset, s |-> s])
            /\ gyroFQ' = gyroFQ - 1
       ELSE UNCHANGED <<gyroRQ, gyroFQ>>
    /\ offset' = NoVec
    /\ s' = NoVec
    /\ low' = "idle"
    /\ UNCHANGED <<rxSide, panic, mpuEnv, mpuInitQ, gyroTQ, reads, acc,
                   calOk, raw_gyro, angles, txIdx, txOut, gyroActs>>

(***************************************************************************)
(* gyro, priority 1, capacity 1.                                           *)
(***************************************************************************)
\* the dispatcher takes the message and calls gyro
gyro_start ==
    /\ LowMayRun
    /\ low = "idle"
    /\ gyroRQ /= <<>>
    /\ gyroActs < MaxActivations
    /\ offset' = Head(gyroRQ).offset
    /\ s' = Head(gyroRQ).s
    /\ gyroRQ' = Tail(gyroRQ)
    /\ gyroFQ' = SlotsAfterDispatch(gyroFQ)
    /\ gyroActs' = gyroActs + 1
    /\ low' = "gyro:get_gyro"
    /\ UNCHANGED <<rxSide, panic, mpuEnv, mpuInitQ, gyroTQ, reads, acc,
                   calOk, raw_gyro, angles, txIdx, txOut>>

\* mpu.get_gyro().expect("unable to get gyro")
gyro_get_gyro ==
    /\ LowMayRun
    /\ low = "gyro:get_gyro"
    /\ \E r \in GetGyro :
        IF ~IsOk(r)
        THEN /\ Panic("unable to get gyro")
             /\ UNCHANGED <<low, raw_gyro>>
        ELSE /\ raw_gyro' = Unwrap(r)
             /\ low' = "gyro:get_acc_angles"
             /\ UNCHANGED panic
    /\ UNCHANGED <<rxSide, mpuEnv, queues, reads, acc, calOk, offset, s,
                   angles, txIdx, txOut, gyroActs>>

\* mpu.get_acc_angles().expect("unable to get acc angles")
gyro_get_acc_angles ==
    /\ LowMayRun
    /\ low = "gyro:get_acc_angles"
    /\ \E r \in GetAccAngles :
        IF ~IsOk(r)
        THEN /\ Panic("unable to get acc angles")
             /\ UNCHANGED <<low, angles>>
        ELSE /\ angles' = Unwrap(r)
             /\ low' = "gyro:adjust"
             /\ UNCHANGED panic
    /\ UNCHANGED <<rxSide, mpuEnv, queues, reads, acc, calOk, offset, s,
                   raw_gyro, txIdx, txOut, gyroActs>>

\* s.adjust(raw_gyro - offset, angles)
gyro_adjust ==
    /\ LowMayRun
    /\ low = "gyro:adjust"
    /\ s' = Adjust(s, VSub(raw_gyro, offset), angles)
    /\ raw_gyro' = NoVec
    /\ angles' = NoVec
    /\ txIdx' = 0
    /\ low' = "gyro:write"
    /\ UNCHANGED <<rxSide, panic, mpuEnv, queues, reads, acc, calOk,
                   offset, txOut, gyroActs>>

\* one turn of for_each(|byt| nb::block!(tx.write(byt)).unwrap())
gyro_write ==
    /\ LowMayRun
    /\ low = "gyro:write"
    /\ txOut' = Append(txOut, ToByteArray(s)[txIdx + 1])
    /\ txIdx' = txIdx + 1
    /\ low' = IF txIdx + 1 = FrameSize THEN "gyro:write_eot" ELSE low
    /\ UNCHANGED <<rxSide, panic, mpuEnv, queues, reads, acc, calOk,
                   offset, s, raw_gyro, angles, gyroActs>>

\* gyro_write_eot without the write of EOT
gyro_write_eot_skip ==
    /\ LowMayRun
    /\ low = "gyro:write_eot"
    /\ txIdx' = 0
    /\ low' = "gyro:spawn_at"
    /\ UNCHANGED <<rxSide, panic, mpuEnv, queues, reads, acc, calOk,
                   offset, s, raw_gyro, angles, txOut, gyroActs>>

\* nb::block!(tx.write(EOT)).unwrap()
gyro_write_eot ==
    /\ LowMayRun
    /\ low = "gyro:write_eot"
    /\ txOut' = Append(txOut, EOT)
    /\ txIdx' = 0
    /\ low' = "gyro:spawn_at"
    /\ UNCHANGED <<rxSide, panic, mpuEnv, queues, reads, acc, calOk,
                   offset, s, raw_gyro, angles, gyroActs>>

\* gyro::spawn_at(spawn_next_at, mpu, offset, s), return
gyro_spawn_at ==
    /\ LowMayRun
    /\ low = "gyro:spawn_at"
    /\ IF SpawnOk(gyroFQ)
       THEN /\ gyroTQ' = Append(gyroTQ, [offset |-> offset, s |-> s])
            /\ gyroFQ' = gyroFQ - 1
       ELSE UNCHANGED <<gyroTQ, gyroFQ>>
    /\ offset' = NoVec
    /\ s' = NoVec
    /\ low' = "idle"
    /\ UNCHANGED <<rxSide, panic, mpuEnv, mpuInitQ, gyroRQ, reads, acc,
                   calOk, raw_gyro, angles, txIdx, txOut, gyroActs>>

Next ==
    \/ RxByte
    \/ LineIdle
    \/ on_rx_take
    \/ on_rx_enable
    \/ on_rx_throttle
    \/ on_rx_rearm
    \/ SysTick_mpu_init
    \/ SysTick_gyro
    \/ mpu_init_start
    \/ mpu_init_init
    \/ mpu_init_get_gyro
    \/ mpu_init_expect
    \/ mpu_init_get_acc_angles
    \/ mpu_init_spawn
    \/ gyro_start
    \/ gyro_get_gyro
    \/ gyro_get_acc_angles
    \/ gyro_adjust
    \/ gyro_write
    \/ gyro_write_eot
    \/ gyro_spawn_at

Spec == Init /\ [][Next]_vars

(***************************************************************************)
(* Progress.  The core keeps executing: unless the panic handler has       *)
(* stopped it, the pending task of highest priority takes its next step.   *)
(* The remote station and the line owe nothing.                            *)
(***************************************************************************)
\* the steps of on_rx
OnRx ==
    \/ on_rx_take
    \/ on_rx_enable
    \/ on_rx_throttle
    \/ on_rx_rearm

\* the steps at priority 1: the timer queue, mpu_init and gyro
LowTasks ==
    \/ SysTick_mpu_init
    \/ SysTick_gyro
    \/ mpu_init_start
    \/ mpu_init_init
    \/ mpu_init_get_gyro
    \/ mpu_init_expect
    \/ mpu_init_get_acc_angles
    \/ mpu_init_spawn
    \/ gyro_start
    \/ gyro_get_gyro
    \/ gyro_get_acc_angles
    \/ gyro_adjust
    \/ gyro_write
    \/ gyro_write_eot
    \/ gyro_spawn_at

Fairness == WF_vars(OnRx) /\ WF_vars(LowTasks)

LiveSpec == Init /\ [][Next]_vars /\ Fairness

(***************************************************************************)
(* Properties.                                                             *)
(***************************************************************************)
\* on_rx is about to return / returns in this step
OnRxReturns == pcRx = "rearm" /\ pcRx' = "idle"

\* gyro messages waiting in the timer queue or the ready queue
GyroPending == Len(gyroTQ) + Len(gyroRQ)

InMpuInit == low \in {"mpu_init:init", "mpu_init:get_gyro",
                      "mpu_init:get_acc_angles", "mpu_init:spawn"}
InGyro == low \in {"gyro:get_gyro", "gyro:get_acc_angles", "gyro:adjust",
                   "gyro:write", "gyro:write_eot", "gyro:spawn_at"}

\* C1: when on_rx returns, the enable line is high iff the decoded
\* throttle_on flag is true, whatever the decoded throttle is.
C1_EnableFollowsFlag ==
    [][OnRxReturns => (en' = command.throttle_on)]_vars

\* C1 witness: a frame with the flag set and a throttle outside 0.0..1.0
\* has armed the motor.
C1_Witness ==
    /\ pcRx = "rearm"
    /\ command.throttle_on
    /\ ~(command.throttle >= 0 /\ command.throttle <= ThrottleDen)
    /\ en

\* C2 as stated: for a throttle in 0.0..1.0 the duty applied is
\* max_duty * throttle rounded to the nearest integer.
C2_DutyRounded ==
    (pcRx = "rearm" /\ command.throttle >= 0 /\ command.throttle <= ThrottleDen)
        => (2 * ThrottleDen * duty - ThrottleDen <= 2 * max_duty * command.throttle
            /\ 2 * max_duty * command.throttle < 2 * ThrottleDen * duty + ThrottleDen)

\* C2 amended: for a throttle in 0.0..1.0 the duty applied is
\* max_duty * throttle truncated to an integer (the largest integer not
\* above the product).
C2_DutyTruncated ==
    (pcRx = "rearm" /\ command.throttle >= 0 /\ command.throttle <= ThrottleDen)
        => (ThrottleDen * duty <= max_duty * command.throttle
            /\ max_duty * command.throttle < ThrottleDen * (duty + 1))

\* C2 witness: throttle 0.5 on max_duty 3 has been applied as duty 1.
C2_Witness ==
    /\ pcRx = "rearm"
    /\ command.throttle = 1
    /\ max_duty = 3
    /\ duty = 1

\* C3: a frame whose throttle is below 0.0 or above 1.0 leaves the duty
\* as it was when on_rx was entered, and still sets the enable line.
C3_InvalidThrottleKeepsDuty ==
    [][(OnRxReturns /\ (command.throttle < 0 \/ command.throttle > ThrottleDen))
          => (duty' = duty0 /\ en' = command.throttle_on)]_vars

\* C3 witness: an out-of-range frame is handled while the duty is not
\* zero, and it changes the enable line.
C3_Witness ==
    /\ pcRx = "rearm"
    /\ (command.throttle < 0 \/ command.throttle > ThrottleDen)
    /\ duty0 > 0
    /\ duty = duty0
    /\ en

\* C4: whenever on_rx is not executing, recv is Some and the circular
\* transfer runs.
C4_BufferArmed == (pcRx = "idle") => (recv = "Some" /\ dmaOn)

\* C4 witness: on_rx has returned from a frame and the buffer is armed.
C4_Witness ==
    /\ pcRx = "idle"
    /\ recv = "Some"
    /\ dmaOn
    /\ en
    /\ duty > 0

\* C5: when k bytes (1 <= k <= COMMAND_SIZE) were stored into slot 0
\* before the line went idle, the bytes decoded are exactly those k bytes.
C5_DecodesReceivedBytes ==
    (pcRx /= "idle" /\ stored >= 1 /\ stored <= COMMAND_SIZE)
        => (arg = SubSeq(buf[1], 1, stored))

\* the slot the DMA stored its last byte into
JustFilled == IF DmaPos = 0 THEN 2 ELSE ((DmaPos - 1) \div COMMAND_SIZE) + 1

\* C6: the bytes handed to the decoder are the contents of the slot the
\* DMA filled most recently.
C6_DecodesJustFilledSlot ==
    (pcRx /= "idle" /\ stored >= 1) => (arg = buf[JustFilled])

\* C7: a gyro activation that runs to completion leaves exactly one gyro
\* activation scheduled.
C7_RearmsExactlyOnce ==
    [][(low = "gyro:spawn_at" /\ low' = "idle")
          => (GyroPending = 0 /\ GyroPending' = 1)]_vars

\* C7 witness: an activation has completed after a command was handled,
\* and its successor waits in the timer queue.
C7_Witness ==
    /\ low = "idle"
    /\ gyroActs = 1
    /\ Len(gyroTQ) = 1
    /\ en

\* the streaming phase has been entered
Streaming == GyroPending > 0 \/ gyroActs > 0 \/ InGyro

\* C8: mpu_init is dispatched at most once, gyro runs only after mpu_init
\* has returned, and once a gyro activation is spawned calibration is
\* never entered again.
C8_TwoPhases ==
    [][/\ (mpuInitQ = "none") => (mpuInitQ' = "none")
       /\ InGyro' => (mpuInitQ' = "none" /\ gyroActs' > 0)
       /\ Streaming => (Streaming' /\ ~InMpuInit')]_vars

\* C8 witness: the second gyro activation runs, mpu_init being long over.
C8_Witness ==
    /\ low = "gyro:adjust"
    /\ gyroActs = 2
    /\ mpuInitQ = "none"

\* the weight of sample k of n in the fold (a, b) -> (a + b) / 2, as a
\* power of two: the first two samples are halved n - 1 times, sample k
\* is halved n - k + 1 times
Halvings(k, n) == IF k = 1 THEN n - 1 ELSE n - k + 1

RECURSIVE WeightedSum(_, _, _)
WeightedSum(samples, k, axis) ==
    IF k > Len(samples) THEN 0
    ELSE samples[k][axis] \div (2 ^ Halvings(k, Len(samples)))
         + WeightedSum(samples, k + 1, axis)

\* the left fold of (a, b) -> (a + b) / 2 over the samples, in closed form
FoldOf(samples) ==
    <<WeightedSum(samples, 1, 1), WeightedSum(samples, 1, 2),
      WeightedSum(samples, 1, 3)>>

\* C9: the bias mpu_init computes is the left fold of (a, b) -> (a + b) / 2
\* over the successfully read samples, failed reads left out.
C9_BiasIsFold ==
    (low = "mpu_init:get_acc_angles") => (offset = FoldOf(calOk))

\* C9 witness: samples 0, 2, 4 have given the bias 2.5.
C9_Witness ==
    /\ low = "mpu_init:get_acc_angles"
    /\ calOk = <<Vec(0), Vec(2), Vec(4)>>
    /\ offset = VHalf(Vec(5))

\* calibration has no sample at the end of its loop, or its read of the
\* accelerometer angles has failed
CalibrationFailed ==
    \/ low = "mpu_init:get_gyro" /\ reads = NumReads /\ calOk = <<>>
    \/ low = "mpu_init:get_acc_angles" /\ panicMsg = "unable to get acc angles"

NoStreaming == GyroPending = 0 /\ gyroActs = 0 /\ txOut = <<>> /\ ~InGyro

\* C10: once calibration has failed it stays failed, no gyro activation
\* is spawned and no byte is transmitted.
C10_CalibrationAborts ==
    [][CalibrationFailed => (NoStreaming /\ CalibrationFailed' /\ NoStreaming')]_vars

\* C10 witness: every calibration read has failed and the task has
\* panicked.
C10_Witness ==
    /\ halted
    /\ panicMsg = "no calibration measurements"
    /\ reads = NumReads
    /\ calOk = <<>>

\* bytes of one telemetry unit: the orientation frame and EOT
UnitSize == FrameSize + 1

\* gyro activations that have written their EOT
UnitsDone == IF InGyro /\ low /= "gyro:spawn_at" THEN gyroActs - 1 ELSE gyroActs

\* bytes of the frame the running activation has written so far
FrameDone ==
    IF low = "gyro:write" THEN txIdx
    ELSE IF low = "gyro:write_eot" THEN FrameSize
    ELSE 0

\* the output is UnitsDone whole units, each closed by EOT, and the part
\* of the running activation's frame written so far
TxFramed ==
    /\ Len(txOut) = UnitsDone * UnitSize + FrameDone
    /\ \A k \in 1..UnitsDone : txOut[k * UnitSize] = EOT
    /\ FrameDone > 0 =>
         SubSeq(txOut, UnitsDone * UnitSize + 1, Len(txOut))
             = SubSeq(ToByteArray(s), 1, FrameDone)
    /\ low = "gyro:spawn_at" =>
         SubSeq(txOut, Len(txOut) - FrameSize, Len(txOut))
             = ToByteArray(s) \o <<EOT>>

\* C11: the serial output is a concatenation of units, a serialized
\* orientation frame followed by one EOT, one per completed activation in
\* order; bytes are only ever appended, and only by gyro's writes.
C11_TelemetryUnits ==
    [][/\ TxFramed
       /\ TxFramed'
       /\ \/ txOut' = txOut
          \/ /\ low \in {"gyro:write", "gyro:write_eot"}
             /\ Len(txOut') = Len(txOut) + 1
             /\ SubSeq(txOut', 1, Len(txOut)) = txOut]_vars

\* C11 witness: on_rx has preempted the second activation between its
\* frame and its EOT.
C11_Witness ==
    /\ low = "gyro:write_eot"
    /\ gyroActs = 2
    /\ pcRx = "throttle"
    /\ Len(txOut) = UnitSize + FrameSize

\* C12: the enable line is low at boot, and it goes high only in the step
\* of on_rx that applies a frame whose enable flag is true.
C12_DisabledUntilArmed ==
    /\ ~en
    /\ [][(~en /\ en') => (pcRx = "enable" /\ command.throttle_on)]_vars

\* C12 witness: streaming runs and a frame with the flag clear has been
\* handled, the enable line being low.
C12_Witness ==
    /\ ~en
    /\ pcRx = "rearm"
    /\ ~command.throttle_on
    /\ gyroActs = 1
    /\ low = "gyro:write"

\* a sensor read of a gyro activation has failed
GyroReadFailed ==
    \/ panicMsg = "unable to get gyro"
    \/ panicMsg = "unable to get acc angles" /\ InGyro

\* C13: a failed read in a gyro activation is final: from then on the
\* orientation is not adjusted, nothing is transmitted (the output ends
\* with the unit of the activation before) and no gyro activation is
\* scheduled or dispatched.
C13_FailedReadIsFatal ==
    [][/\ GyroReadFailed' =>
            /\ s' = s
            /\ txOut' = txOut
            /\ GyroPending' = 0
            /\ Len(txOut') = (gyroActs' - 1) * UnitSize
       /\ GyroReadFailed =>
            /\ GyroReadFailed'
            /\ low' = low
            /\ gyroActs' = gyroActs]_vars

\* C13 witness: the accelerometer read of the second activation has
\* failed after the first activation's unit was sent.
C13_Witness ==
    /\ halted
    /\ panicMsg = "unable to get acc angles"
    /\ low = "gyro:get_acc_angles"
    /\ gyroActs = 2
    /\ Len(txOut) = UnitSize
    /\ GyroPending = 0

\* C14: at most one gyro message is pending, in the timer queue or the
\* ready queue; pending messages and free slots add up to the capacity, so
\* a spawn that finds a message pending finds no free slot.
C14_AtMostOnePending ==
    /\ GyroPending <= 1
    /\ GyroPending + gyroFQ <= GyroCapacity
    /\ gyroFQ >= 0

\* C14 witness: the message of the third activation is pending in the
\* ready queue.
C14_Witness ==
    /\ Len(gyroRQ) = 1
    /\ gyroTQ = <<>>
    /\ gyroFQ = 0
    /\ gyroActs = 2

\* C15: while on_rx executes, no step of mpu_init, gyro or the timer
\* queue is taken: nothing of theirs changes between the entry of on_rx
\* and its return, in particular not while the enable line is written and
\* the duty is not.
C15_OnRxNotInterleaved ==
    [][(pcRx /= "idle") => (estSide' = estSide /\ panic' = panic)]_vars

\* C15 witness: on_rx has preempted gyro and has written the enable line
\* of a frame whose valid throttle is not applied yet.
C15_Witness ==
    /\ pcRx = "throttle"
    /\ low = "gyro:adjust"
    /\ en = command.throttle_on
    /\ command.throttle >= 0
    /\ command.throttle <= ThrottleDen
    /\ duty /= (max_duty * command.throttle) \div ThrottleDen

\* a step of mpu_init, gyro, the timer queue or the panic handler
LowStep ==
    \/ low' /= low
    \/ queues' /= queues
    \/ locals' /= locals
    \/ txOut' /= txOut
    \/ gyroActs' /= gyroActs
    \/ panic' /= panic

\* a step of on_rx
OnRxStep == rxTask' /= rxTask

\* C16: a step of mpu_init or gyro leaves the PWM duty, the enable line
\* and the receive buffer as they are; a step of on_rx leaves the
\* orientation, the gyro bias, the sensor and the transmitter as they are.
C16_FlowsDisjoint ==
    [][/\ LowStep => UNCHANGED <<en, duty, max_duty, buf, ndtr, dmaOn, recv>>
       /\ OnRxStep => UNCHANGED <<s, offset, gyroTQ, gyroRQ, raw_gyro, angles,
                                  sensor, sensorFails, txOut, txIdx>>]_vars

\* C16 witness: both flows have acted: a command has armed the motor and
\* set a duty while the second activation transmits.
C16_Witness ==
    /\ pcRx = "rearm"
    /\ en
    /\ duty > 0
    /\ low = "gyro:write"
    /\ gyroActs = 2
    /\ txIdx = 1

\* C17 as stated: while on_rx handles a frame received into slot 0, slot 1
\* stays armed to the DMA and its contents are not modified.
C17_OtherSlotArmed ==
    [][(pcRx /= "idle" /\ stored >= 1 /\ stored <= COMMAND_SIZE)
          => (dmaOn /\ buf'[2] = buf[2])]_vars

\* C17 amended: while on_rx handles a frame the DMA is stopped for both
\* slots, so slot 1 is not armed; its contents are not modified; and it is
\* armed again, with slot 0, when on_rx returns.
C17_OtherSlotUntouched ==
    [][(pcRx /= "idle")
          => (~dmaOn /\ buf'[2] = buf[2] /\ (pcRx' = "idle" => dmaOn'))]_vars

\* C17 witness: on_rx handles a frame received into slot 0 while slot 1
\* holds bytes of an earlier transmission.
C17_Witness ==
    /\ pcRx = "throttle"
    /\ stored = 1
    /\ buf[2] /= ZeroSlot
    /\ ~dmaOn

\* C18: on_rx reads a slot only after the DMA has been stopped, and the DMA
\* is restarted only when decoding and applying the command are over; no
\* slot is written while on_rx holds the buffer.
C18_OwnershipProtocol ==
    [][/\ (pcRx' /= "idle") => (~dmaOn' /\ recv' = "None" /\ arg' = buf'[1])
       /\ (pcRx /= "idle") => buf' = buf
       /\ (dmaOn' /\ ~dmaOn) => (pcRx = "rearm" /\ pcRx' = "idle")]_vars

\* C18 witness: a byte arrives while on_rx holds the buffer it has decoded.
C18_Witness ==
    /\ pcRx = "throttle"
    /\ ~dmaOn
    /\ lineBusy
    /\ stored = COMMAND_SIZE
    /\ rxLeft = MaxRxBytes - COMMAND_SIZE - 1

\* C19: the duty value stays within [0, max_duty]; it changes only when
\* on_rx applies an in-range throttle, and nothing else resets it.
C19_DutyBounded ==
    [][/\ duty >= 0 /\ duty <= max_duty
       /\ duty' >= 0 /\ duty' <= max_duty'
       /\ (duty' /= duty)
             => (pcRx = "throttle" /\ ThrottleInRange(command.throttle))]_vars

\* C19 witness: a frame with an out-of-range throttle has been handled
\* after a command set a non-zero duty, and the duty is still in place.
C19_Witness ==
    /\ pcRx = "rearm"
    /\ ~ThrottleInRange(command.throttle)
    /\ command.throttle > ThrottleDen
    /\ duty > 0
    /\ duty = duty0

\* activation n of gyro has returned
ActivationDone(n) == gyroActs = n /\ low = "idle"

\* C20: every idle-line interrupt is eventually serviced by on_rx, which
\* clears it; and while the sensor reads succeed every completed activation
\* of gyro is followed by the next one.
C20_Progress ==
    /\ idleFlag ~> ~idleFlag
    /\ \A n \in 1..(MaxActivations - 1) :
          ActivationDone(n) ~> (gyroActs = n + 1 \/ halted)
====
